---- MODULE Spec2Model ----
(***************************************************************************)
(* Raymote (index.mjs): the two serial connections (receiver,              *)
(* transmitter), the /api/connect, /api/send and /api/events handlers, the *)
(* startup auto-reconnect and the persisted port configuration.            *)
(*                                                                         *)
(* One action is one run-to-completion turn of the Node event loop: the    *)
(* callback that the event starts together with every promise continuation *)
(* (microtask) it makes runnable.  The serialport library, the HTTP         *)
(* clients and the clock are the environment: their events are the inputs   *)
(* of the actions.  A rejection or an 'error' event that nothing handles   *)
(* ends the process: after that step no callback runs.                     *)
(*                                                                         *)
(* Eight specifications share the variables and the actions:               *)
(*   Spec       the connections of both roles: /api/connect, the port      *)
(*              events and the bootstrap;                                  *)
(*   SendSpec   the transmitter's connection and /api/send;                *)
(*   LineSpec   the receiver's connection and the lines it reads;          *)
(*   EventSpec  the receiver's connection, its lines and the /api/events   *)
(*              clients;                                                   *)
(*   RunSpec    both devices reconnected at startup, then sends, lines,    *)
(*              clients and port errors;                                   *)
(*   ListSpec   GET /api/ports;                                            *)
(*   SavedSpec  as Spec, on a disk where every save succeeds;              *)
(*   LiveSpec   the connections with a serial library that answers every   *)
(*              open (weak fairness of the answer).                        *)
(* Each holds every handler that reads or writes the variables its          *)
(* properties are about.                                                   *)
(***************************************************************************)
EXTENDS Integers, Sequences, FiniteSets, TLC

(***************************************************************************)
(* Bounds of the model.                                                    *)
(***************************************************************************)
\* SerialPort objects that /api/connect requests construct in one run (the
\* bootstrap constructs its own on top).
MaxPorts == 2

\* /api/send requests in one run.
MaxSends == 2

\* Steps in one run of the event stream: the /api/connect requests that name
\* a port, the /api/events requests, the keepalive ticks and the lines read
\* from receiver ports together.
MaxEvents == 4

\* Steps in one run of the receiver alone: the /api/connect requests that
\* name a port and the lines read from receiver ports together.
MaxLines == 3

\* Requests in one run of the transmitter alone: the /api/connect requests
\* that name a port and the /api/send requests together.
MaxRequests == 3

(***************************************************************************)
(* Values.                                                                 *)
(***************************************************************************)
\* The two values of "type" that name a role.  A /api/connect body with any
\* other type, or with none, is handled by HttpConnectOther.
Roles == {"receiver", "transmitter"}

\* JSON null / a missing "port" field of the request body.
Null == "<null>"

\* Device paths a request or the config file can name.
Paths == {"/dev/ttyUSB0", "/dev/ttyACM0"}

\* What the "port" field of a /api/connect body can be.
PathInputs == Paths \cup {"", Null}

\* Reasons the serial binding gives for a failed open or a transport error.
Errors == {"ENOENT", "EACCES"}

\* JavaScript's !portPath for a string or null.
Falsy(portPath) == portPath = "" \/ portPath = Null

\* JavaScript's port || null.
OrNull(portPath) == IF Falsy(portPath) THEN Null ELSE portPath

VARIABLES
    ports,            \* every SerialPort constructed so far, by handle 1..Len
    receiverPort,     \* let receiverPort: a handle, 0 for null
    transmitterPort,  \* let transmitterPort: a handle, 0 for null
    config,           \* the content of config.json
    boot,             \* position of the server.listen callback
    bootConfig,       \* const config of the server.listen callback
    lastDisconnect,   \* history: the response to the role's latest connect
                      \* call when that call named no path, else NoReply
    overlap,          \* history: a connect was called for the role while
                      \* an earlier open of that role was still pending
    sends,            \* every /api/send request so far, in arrival order
    writes,           \* every port.write(command, callback) call so far
    connectedClients, \* let connectedClients: the res of each open stream
    clients,          \* every /api/events response so far: what was written
                      \* to it, its keepalive timer and, as history, how many
                      \* events had been broadcast when it subscribed (since)
                      \* and when it was removed (until, -1 while subscribed)
                      \* and how many of the frames had been written when
                      \* its socket was destroyed (lost, -1 before that)
    linesRead,        \* history: every line a receiver parser has emitted
    published,        \* history: every message broadcast to the clients
    listed,           \* the latest GET /api/ports request: what
                      \* SerialPort.list() gave it and its response
    exited            \* the process has exited on an unhandled rejection
                      \* or 'error' event

connVars == <<ports, receiverPort, transmitterPort, config, boot, bootConfig,
              lastDisconnect, overlap>>

sendVars == <<sends, writes>>

eventVars == <<connectedClients, clients, linesRead, published>>

vars == <<ports, receiverPort, transmitterPort, config, boot, bootConfig,
          lastDisconnect, overlap, sends, writes, connectedClients, clients,
          linesRead, published, listed, exited>>

(***************************************************************************)
(* HTTP responses of /api/connect and /api/send: res.writeHead(status) and  *)
(* the error and disconnected fields of the JSON body.                     *)
(***************************************************************************)
\* No response written yet.
NoReply == [status |-> 0, error |-> "", disconnected |-> FALSE]
\* 200 { success: true, port, type } (disconnected: undefined is left out)
Reply200 == [status |-> 200, error |-> "", disconnected |-> FALSE]
\* 200 { success: true, port, type, disconnected: true }
Reply200Disconnected == [status |-> 200, error |-> "", disconnected |-> TRUE]
\* 500 { error: err.message }
Reply500(message) == [status |-> 500, error |-> message, disconnected |-> FALSE]

(***************************************************************************)
(* SerialPort objects.  st is the port as the code can observe it:         *)
(* "opening" after open() and before 'open'/'error', "open" while isOpen,  *)
(* "closed" after close() or loss of the device, "failed" when the open    *)
(* reported an error.  promise is the promise the connect call returned.   *)
(***************************************************************************)
NewPort(role, portPath, caller) ==
    [role |-> role, path |-> portPath, st |-> "opening", caller |-> caller,
     promise |-> "pending", reply |-> NoReply]

IsOpen(ps, h) == ps[h].st = "open"

\* Mutant of CloseIfOpen: the existing connection is not closed.
CloseIfOpenSkipped(ps, h) == ps

\* if (xPort && xPort.isOpen) xPort.close()
CloseIfOpen(ps, h) ==
    IF h # 0 /\ IsOpen(ps, h) THEN [ps EXCEPT ![h].st = "closed"] ELSE ps

Tracked(role) == IF role = "receiver" THEN receiverPort ELSE transmitterPort

OpenPorts(role) ==
    {h \in 1..Len(ports) : ports[h].role = role /\ IsOpen(ports, h)}

Opening(role) ==
    {h \in 1..Len(ports) : ports[h].role = role /\ ports[h].st = "opening"}

\* A callback runs only while the process is alive, and it is alive
\* afterwards unless the callback leaves a rejection unhandled.
Running == ~exited /\ UNCHANGED exited

\* A request is handled once server.listen()'s callback has run.
Listening == Running /\ boot # "start"

(***************************************************************************)
(* config.json                                                             *)
(***************************************************************************)
ConfigValues == [receiverPort : Paths \cup {Null}, transmitterPort : Paths \cup {Null}]

\* What config.json holds at startup: nothing saved, or the device last
\* connected for a role (the two roles are two devices).
SavedConfigs ==
    [receiverPort : {Null, "/dev/ttyUSB0"}, transmitterPort : {Null, "/dev/ttyACM0"}]

\* Mutant of LoadConfig: the configuration read at startup is used again.
LoadConfigCached == bootConfig

\* loadConfig()
LoadConfig == config

\* Mutant of WithPort: the port of the request body is stored as it came.
WithPortAsGiven(cfg, type, port) ==
    IF type = "receiver" THEN [cfg EXCEPT !.receiverPort = port]
    ELSE [cfg EXCEPT !.transmitterPort = port]

\* config.receiverPort = port || null / config.transmitterPort = port || null
WithPort(cfg, type, port) ==
    IF type = "receiver" THEN [cfg EXCEPT !.receiverPort = OrNull(port)]
    ELSE [cfg EXCEPT !.transmitterPort = OrNull(port)]

\* What loadConfig() answers for a config.json that is missing, empty or
\* not JSON.
NoConfig == [receiverPort |-> Null, transmitterPort |-> Null]

\* What a writeFileSync(configFile, ...) can do: write the file; fail when
\* it opens the file (EPERM, EROFS), which leaves the file as it was; fail
\* when it writes (ENOSPC, EFBIG, EIO), after the open has emptied the file.
Saves == {"saved", "untouched", "truncated"}

\* saveConfig(config): writeFileSync, a failure is logged and swallowed.
SaveConfig(cfg, save) ==
    config' = CASE save = "saved" -> cfg
                [] save = "untouched" -> config
                [] save = "truncated" -> NoConfig

SaveError == "EROFS"

\* Mutant of SaveThrows: saveConfig without its try/catch.
SaveThrowsOnFailure(save) == save # "saved"

\* Whether saveConfig(config) throws into the request handler: its catch
\* block logs the failure of writeFileSync and returns.
SaveThrows(save) == FALSE

\* The response of POST /api/connect once the connect function has returned
\* result: the handler's catch answers 500 for anything thrown on the way.
ConnectReply(result, save) ==
    IF SaveThrows(save) THEN Reply500(SaveError)
    ELSE IF result.disconnected THEN Reply200Disconnected ELSE Reply200

(***************************************************************************)
(* connectToReceiver / connectToTransmitter up to the returned promise:    *)
(* the ports and the tracked handle after the call, and whether the call   *)
(* returned { success: true, disconnected: true } or a pending promise.    *)
(***************************************************************************)
ConnectToReceiver(ps, portPath, caller) ==
    LET closed == CloseIfOpen(ps, receiverPort) IN
    IF Falsy(portPath)
    THEN [ports |-> closed, tracked |-> 0, disconnected |-> TRUE]
    ELSE [ports |-> Append(closed, NewPort("receiver", portPath, caller)),
          tracked |-> receiverPort, disconnected |-> FALSE]

ConnectToTransmitter(ps, portPath, caller) ==
    LET closed == CloseIfOpen(ps, transmitterPort) IN
    IF Falsy(portPath)
    THEN [ports |-> closed, tracked |-> 0, disconnected |-> TRUE]
    ELSE [ports |-> Append(closed, NewPort("transmitter", portPath, caller)),
          tracked |-> transmitterPort, disconnected |-> FALSE]

\* History kept beside a connect call of a role.
NoteCall(role, portPath, reply) ==
    /\ lastDisconnect' = [lastDisconnect EXCEPT ![role] = reply]
    /\ overlap' = [overlap EXCEPT
                     ![role] = @ \/ (~Falsy(portPath) /\ Opening(role) # {})]

(***************************************************************************)
(* server.listen callback: auto-reconnect to the saved ports.              *)
(***************************************************************************)
\* Mutant of BootTransmitter: a receiver that failed to reconnect ends the
\* bootstrap (one try/catch around both reconnects).
BootTransmitterAborted(ps, cfg) ==
    IF \E h \in 1..Len(ps) : ps[h].caller = "boot" /\ ps[h].st = "failed"
    THEN /\ ports' = ps
         /\ boot' = "done"
         /\ UNCHANGED <<transmitterPort, lastDisconnect, overlap>>
    ELSE IF ~Falsy(cfg.transmitterPort)
    THEN /\ ports' = Append(CloseIfOpen(ps, transmitterPort),
                            NewPort("transmitter", cfg.transmitterPort, "boot"))
         /\ boot' = "awaitTransmitter"
         /\ UNCHANGED <<transmitterPort, lastDisconnect, overlap>>
    ELSE /\ ports' = ps
         /\ boot' = "done"
         /\ UNCHANGED <<transmitterPort, lastDisconnect, overlap>>

\* if (config.transmitterPort) { try { await connectToTransmitter(...) } }
\* run on the ports ps, which the step before it may have changed.
BootTransmitter(ps, cfg) ==
    IF ~Falsy(cfg.transmitterPort)
    THEN LET c == ConnectToTransmitter(ps, cfg.transmitterPort, "boot") IN
         /\ ports' = c.ports
         /\ transmitterPort' = c.tracked
         /\ NoteCall("transmitter", cfg.transmitterPort, NoReply)
         /\ boot' = "awaitTransmitter"
    ELSE /\ ports' = ps
         /\ boot' = "done"
         /\ UNCHANGED <<transmitterPort, lastDisconnect, overlap>>

\* The callback up to its first await.
BootStart ==
    /\ Running
    /\ boot = "start"
    /\ bootConfig' = LoadConfig
    /\ IF ~Falsy(LoadConfig.receiverPort)
       THEN LET c == ConnectToReceiver(ports, LoadConfig.receiverPort, "boot") IN
            /\ ports' = c.ports
            /\ receiverPort' = c.tracked
            /\ NoteCall("receiver", LoadConfig.receiverPort, NoReply)
            /\ boot' = "awaitReceiver"
            /\ UNCHANGED transmitterPort
       ELSE /\ BootTransmitter(ports, LoadConfig)
            /\ UNCHANGED receiverPort
    /\ UNCHANGED <<config, sendVars, eventVars, listed>>

(***************************************************************************)
(* POST /api/connect                                                       *)
(***************************************************************************)
\* The handler with a body whose port is empty or absent: the connect
\* function returns at once and the handler runs to its response.
HttpDisconnect(type, port, save) ==
    /\ Listening
    /\ Falsy(port)
    /\ LET c == IF type = "receiver" THEN ConnectToReceiver(ports, port, "http")
                ELSE ConnectToTransmitter(ports, port, "http") IN
       /\ ports' = c.ports
       /\ IF type = "receiver"
          THEN receiverPort' = c.tracked /\ UNCHANGED transmitterPort
          ELSE transmitterPort' = c.tracked /\ UNCHANGED receiverPort
       /\ NoteCall(type, port, ConnectReply(c, save))
    /\ SaveConfig(WithPort(LoadConfig, type, port), save)
    /\ UNCHANGED <<boot, bootConfig, sendVars, eventVars, listed>>

\* The handler with a body that names a port, up to its await.
HttpConnect(type, port) ==
    /\ Listening
    /\ ~Falsy(port)
    /\ Len(ports) < MaxPorts
    /\ LET c == IF type = "receiver" THEN ConnectToReceiver(ports, port, "http")
                ELSE ConnectToTransmitter(ports, port, "http") IN
       /\ ports' = c.ports
       /\ IF type = "receiver"
          THEN receiverPort' = c.tracked /\ UNCHANGED transmitterPort
          ELSE transmitterPort' = c.tracked /\ UNCHANGED receiverPort
    /\ NoteCall(type, port, NoReply)
    /\ UNCHANGED <<config, boot, bootConfig, sendVars, eventVars, listed>>

\* What the exit of the process leaves of the ports: the open devices are
\* released; an open() that was not answered never is.
Released(ps) ==
    [h \in DOMAIN ps |-> IF IsOpen(ps, h) THEN [ps[h] EXCEPT !.st = "closed"]
                         ELSE ps[h]]

\* What the exit of the process leaves of the /api/events clients: no timer
\* fires again; the close handler of a response does not run.
Ended(cs) == [c \in DOMAIN cs |-> [cs[c] EXCEPT !.timer = FALSE]]

\* The handler with a body whose type is neither 'receiver' nor
\* 'transmitter' (or is absent): no connect function is called, the config
\* is loaded and saved as it is and writeHead(200) is sent; result is
\* undefined, so result.disconnected throws, and in the catch writeHead(500)
\* throws because the headers are sent.  The rejection of the handler is
\* unhandled and the process exits.
HttpConnectOther(save) ==
    /\ ~exited
    /\ boot # "start"
    /\ SaveConfig(LoadConfig, save)
    /\ exited' = TRUE
    /\ ports' = Released(ports)
    /\ clients' = Ended(clients)
    /\ connectedClients' = <<>>
    /\ UNCHANGED <<receiverPort, transmitterPort, boot, bootConfig,
                   lastDisconnect, overlap, sendVars, linesRead, published,
                   listed>>

\* A request that makes the request handler throw outside every try: a
\* Host header or a target that new URL() rejects, on any route, or GET /
\* and GET /htmx.min.js when the file under ./public cannot be read.  No
\* response is written and nothing is saved; the rejection of the handler
\* is unhandled and the process exits.
HttpRequestThrows ==
    /\ ~exited
    /\ boot # "start"
    /\ exited' = TRUE
    /\ ports' = Released(ports)
    /\ clients' = Ended(clients)
    /\ connectedClients' = <<>>
    /\ UNCHANGED <<receiverPort, transmitterPort, config, boot, bootConfig,
                   lastDisconnect, overlap, sendVars, linesRead, published,
                   listed>>

\* server.listen(PORT) fails (the port is in use): the server's 'error'
\* event has no listener, the callback of listen never runs and the
\* process exits before the bootstrap.
ListenError ==
    /\ ~exited
    /\ boot = "start"
    /\ exited' = TRUE
    /\ UNCHANGED <<connVars, sendVars, eventVars, listed>>

(***************************************************************************)
(* Serial port events.                                                     *)
(***************************************************************************)
\* port.on('open'): the handle becomes the tracked one and the promise
\* resolves; the awaiting caller continues in the same turn.  For a request
\* that is the save, with its outcome.
Opened(h, save) ==
    /\ Running
    /\ h \in 1..Len(ports)
    /\ ports[h].st = "opening"
    /\ LET role == ports[h].role
           opened == [ports EXCEPT ![h].st = "open", ![h].promise = "resolved"]
       IN
       /\ receiverPort' = IF role = "receiver" THEN h ELSE receiverPort
       /\ IF ports[h].caller = "http"
          THEN /\ transmitterPort' =
                    IF role = "transmitter" THEN h ELSE transmitterPort
               /\ SaveConfig(WithPort(LoadConfig, role, ports[h].path), save)
               /\ ports' = [opened EXCEPT ![h].reply =
                              ConnectReply([disconnected |-> FALSE], save)]
               /\ UNCHANGED <<boot, lastDisconnect, overlap>>
          ELSE /\ UNCHANGED config
               /\ IF role = "receiver"
                  THEN BootTransmitter(opened, bootConfig)
                  ELSE /\ ports' = opened
                       /\ transmitterPort' = h
                       /\ boot' = "done"
                       /\ UNCHANGED <<lastDisconnect, overlap>>
    /\ UNCHANGED <<bootConfig, sendVars, eventVars, listed>>

\* The 'open' event of port h, whatever the save does.
OpenEvent(h) == \E save \in Saves : Opened(h, save)

\* Mutant of OpenError: the bootstrap's catch forgets the saved path of a
\* role that failed to reconnect.
OpenErrorForgetting(h, err) ==
    /\ Running
    /\ h \in 1..Len(ports)
    /\ ports[h].st = "opening"
    /\ LET role == ports[h].role
           failed == [ports EXCEPT ![h].st = "failed", ![h].promise = err]
       IN
       IF ports[h].caller = "http"
       THEN /\ ports' = [failed EXCEPT ![h].reply = Reply500(err)]
            /\ UNCHANGED <<receiverPort, transmitterPort, config, boot,
                           lastDisconnect, overlap>>
       ELSE /\ UNCHANGED receiverPort
            /\ config' = WithPort(LoadConfig, role, Null)
            /\ IF role = "receiver"
               THEN BootTransmitter(failed, bootConfig)
               ELSE /\ ports' = failed
                    /\ boot' = "done"
                    /\ UNCHANGED <<transmitterPort, lastDisconnect, overlap>>
    /\ UNCHANGED <<bootConfig, sendVars, eventVars, listed>>

\* Mutant of OpenError: the handler's catch clears the saved path of the role.
OpenErrorSaving(h, err) ==
    /\ Running
    /\ h \in 1..Len(ports)
    /\ ports[h].st = "opening"
    /\ LET role == ports[h].role
           failed == [ports EXCEPT ![h].st = "failed", ![h].promise = err]
       IN
       IF ports[h].caller = "http"
       THEN /\ ports' = [failed EXCEPT ![h].reply = Reply500(err)]
            /\ config' = WithPort(LoadConfig, role, Null)
            /\ UNCHANGED <<receiverPort, transmitterPort, boot, lastDisconnect, overlap>>
       ELSE /\ UNCHANGED <<receiverPort, config>>
            /\ IF role = "receiver"
               THEN BootTransmitter(failed, bootConfig)
               ELSE /\ ports' = failed
                    /\ boot' = "done"
                    /\ UNCHANGED <<transmitterPort, lastDisconnect, overlap>>
    /\ UNCHANGED <<bootConfig, sendVars, eventVars, listed>>

\* port.on('error') for a failed open: the promise rejects with the error,
\* the handler answers 500 and the bootstrap logs and goes on.
OpenError(h, err) ==
    /\ Running
    /\ h \in 1..Len(ports)
    /\ ports[h].st = "opening"
    /\ LET role == ports[h].role
           failed == [ports EXCEPT ![h].st = "failed", ![h].promise = err]
       IN
       IF ports[h].caller = "http"
       THEN /\ ports' = [failed EXCEPT ![h].reply = Reply500(err)]
            /\ UNCHANGED <<receiverPort, transmitterPort, boot, lastDisconnect, overlap>>
       ELSE /\ UNCHANGED receiverPort
            /\ IF role = "receiver"
               THEN BootTransmitter(failed, bootConfig)
               ELSE /\ ports' = failed
                    /\ boot' = "done"
                    /\ UNCHANGED <<transmitterPort, lastDisconnect, overlap>>
    /\ UNCHANGED <<config, bootConfig, sendVars, eventVars, listed>>

\* The ports after an 'error' event of the open port h: the library has
\* closed the port with the error (the device is gone) or has left it open;
\* the handler changes nothing of it.
AfterError(ps, h, closes) ==
    [ps EXCEPT ![h].st = IF closes THEN "closed" ELSE "open"]

\* Mutant of PortError: the handler tells every subscribed client.
PortErrorBroadcast(h, closes) ==
    /\ Running
    /\ h \in 1..Len(ports)
    /\ ports[h].st = "open"
    /\ ports' = AfterError(ports, h, closes)
    /\ clients' =
          [c \in DOMAIN clients |->
             IF \E k \in DOMAIN connectedClients : connectedClients[k] = c
             THEN [clients[c] EXCEPT
                     !.frames = Append(@, [type |-> "data",
                                           message |-> [timestamp |-> "",
                                                        data |-> <<>>]])]
             ELSE clients[c]]
    /\ UNCHANGED <<receiverPort, transmitterPort, config, boot, bootConfig,
                   lastDisconnect, overlap, sendVars, connectedClients,
                   linesRead, published, listed>>

\* port.on('error') on an open port (the device is gone, an I/O error):
\* the handler logs and rejects a promise that is already resolved.  The
\* library may or may not leave the port open.
PortError(h, closes) ==
    /\ Running
    /\ h \in 1..Len(ports)
    /\ ports[h].st = "open"
    /\ ports' = AfterError(ports, h, closes)
    /\ UNCHANGED <<receiverPort, transmitterPort, config, boot, bootConfig,
                   lastDisconnect, overlap, sendVars, eventVars, listed>>

(***************************************************************************)
(* POST /api/send and sendIRCommand.  Text that is written to a port is a  *)
(* sequence of characters.                                                 *)
(***************************************************************************)
Digit == <<"0", "1", "2", "3", "4", "5", "6", "7", "8", "9">>

\* `${bits}` for a non-negative integer: its decimal digits.
RECURSIVE ToDecimal(_)
ToDecimal(n) ==
    IF n < 10 THEN <<Digit[n + 1]>>
    ELSE ToDecimal(n \div 10) \o <<Digit[(n % 10) + 1]>>

\* Mutant of Command: the line is written without its newline.
CommandUnterminated(protocol, bits, code) ==
    protocol \o <<",">> \o ToDecimal(bits) \o <<",">> \o code

\* const command = `${protocol},${bits},${code}\n`
Command(protocol, bits, code) ==
    protocol \o <<",">> \o ToDecimal(bits) \o <<",">> \o code \o <<"\n">>

\* The { protocol, bits, code } bodies that are sent.
Commands ==
    { [protocol |-> <<"N", "E", "C">>, bits |-> 32, code |-> <<"0", "x", "1">>],
      [protocol |-> <<"S", "O", "N", "Y">>, bits |-> 12,
       code |-> <<"0", "x", "A", "9", "0">>],
      [protocol |-> <<"R", "C", "5">>, bits |-> 7, code |-> <<"1", "0", "C">>] }

\* Errors the transport passes to a write callback.
WriteErrors == {"EIO"}

NotConnected == "Transmitter not connected"

\* Mutant of Connected: only the handle is tested, not isOpen.
ConnectedUnlessNull(ps, h) == h # 0

\* !( !transmitterPort || !transmitterPort.isOpen )
Connected(ps, h) == h # 0 /\ IsOpen(ps, h)

\* Mutant of LogWrite: the write is put before the ones already queued.
LogWriteFirst(ws, w) == <<w>> \o ws

\* transmitterPort.write(command, callback): the call joins the writes made
\* so far, in call order.
LogWrite(ws, w) == Append(ws, w)

\* sendIRCommand up to the returned promise: the request as the handler
\* holds it (cb is what the write callback has reported) and the write made.
SendIRCommand(cmd) ==
    IF ~Connected(ports, transmitterPort)
    THEN [send |-> [cmd |-> cmd, port |-> 0, cb |-> "none",
                    reply |-> Reply500(NotConnected)],
          writes |-> writes]
    ELSE [send |-> [cmd |-> cmd, port |-> transmitterPort, cb |-> "pending",
                    reply |-> NoReply],
          writes |-> LogWrite(writes,
                        [port |-> transmitterPort, send |-> Len(sends) + 1,
                         bytes |-> Command(cmd.protocol, cmd.bits, cmd.code)])]

\* The handler up to its await (and to its 500 when not connected).
HttpSend(cmd) ==
    /\ Listening
    /\ Len(sends) < MaxSends
    /\ LET r == SendIRCommand(cmd) IN
       /\ sends' = Append(sends, r.send)
       /\ writes' = r.writes
    /\ UNCHANGED <<listed, connVars, eventVars>>

\* Mutant of WriteReply: the callback's error is ignored.
WriteReplyIgnoringError(err) == Reply200

\* (err) => err ? reject(err) : resolve({ success: true }), and the
\* handler's 200 { success: true } or 500 { error: err.message }.
WriteReply(err) == IF err = "" THEN Reply200 ELSE Reply500(err)

\* The writes of port h whose callback has not run, oldest first.
PendingOn(h) == {i \in 1..Len(sends) : sends[i].port = h /\ sends[i].cb = "pending"}

\* The write callback of request i runs, with err or with no error ("").
\* The stream completes the writes of one port in the order they were made.
\* A write that fails ends the port: the library closes it before it calls
\* back, and the stream fails every write still queued on the port with
\* the same error, so that all their requests are answered in this turn.
WriteDone(i, err) ==
    /\ Running
    /\ i \in 1..Len(sends)
    /\ sends[i].cb = "pending"
    /\ \A j \in PendingOn(sends[i].port) : i <= j
    /\ IF err = ""
       THEN /\ sends' = [sends EXCEPT ![i].cb = "ok",
                                      ![i].reply = WriteReply(err)]
            /\ UNCHANGED ports
       ELSE /\ sends' = [j \in DOMAIN sends |->
                           IF j \in PendingOn(sends[i].port)
                           THEN [sends[j] EXCEPT !.cb = err,
                                                 !.reply = WriteReply(err)]
                           ELSE sends[j]]
            /\ ports' = CloseIfOpen(ports, sends[i].port)
    /\ UNCHANGED <<receiverPort, transmitterPort, config, boot, bootConfig,
                   lastDisconnect, overlap, writes, eventVars, listed>>

(***************************************************************************)
(* The receiver's lines and GET /api/events.                               *)
(***************************************************************************)
Decoded ==
    <<"D", "e", "c", "o", "d", "e", "d">>

ReadyToReceive ==
    <<"R", "e", "a", "d", "y", " ", "t", "o", " ", "r", "e", "c", "e", "i",
      "v", "e">>

\* Lines the ReadlineParser of a receiver port emits.
LineDecoded ==
    <<"D", "e", "c", "o", "d", "e", "d", " ", "N", "E", "C", " ", "3", "2",
      " ", "0", "x", "1">>

LineNoise ==
    <<"n", "o", "i", "s", "e">>

LineReady == ReadyToReceive

LineDecodedInside ==
    <<"I", "R", " ", "D", "e", "c", "o", "d", "e", "d">>

LineLowerCase ==
    <<"r", "e", "a", "d", "y", " ", "t", "o", " ", "r", "e", "c", "e", "i",
      "v", "e">>

Lines == {LineDecoded, LineNoise, LineReady, LineDecodedInside, LineLowerCase}

\* new Date().toLocaleTimeString() at the time a line is handled.
Times == {"10:15:01 AM", "10:15:02 AM"}

\* String.prototype.includes
Includes(data, marker) ==
    \E i \in 0..(Len(data) - Len(marker)) :
        SubSeq(data, i + 1, i + Len(marker)) = marker

\* Mutant of Forwarded: only the "Decoded" marker is looked for.
ForwardedDecodedOnly(data) == Includes(data, Decoded)

\* data.includes('Decoded') || data.includes('Ready to receive')
Forwarded(data) == Includes(data, Decoded) \/ Includes(data, ReadyToReceive)

\* const message = { timestamp, data }
Message(timestamp, data) == [timestamp |-> timestamp, data |-> data]

\* `data: ${JSON.stringify(message)}\n\n`
DataFrame(message) == [type |-> "data", message |-> message]

\* ': keepalive\n\n'
KeepAliveFrame == [type |-> "comment", message |-> Message("", <<>>)]

\* client.write(frame): the call is logged in frames; it throws nothing, and
\* on a response whose socket is gone (lost # -1) it sends nothing.
Write(cs, c, frame) == [cs EXCEPT ![c].frames = Append(@, frame)]

\* connectedClients.forEach(client => client.write(frame))
RECURSIVE WriteAll(_, _, _)
WriteAll(cs, list, frame) ==
    IF list = <<>> THEN cs
    ELSE WriteAll(Write(cs, Head(list), frame), Tail(list), frame)

\* The keepalive frames written so far.
RECURSIVE KeepAlives(_)
KeepAlives(cs) ==
    IF cs = <<>> THEN 0
    ELSE Len(SelectSeq(Head(cs).frames, LAMBDA f : f.type = "comment"))
         + KeepAlives(Tail(cs))

\* The steps of a run that count towards MaxEvents and MaxLines.
Steps ==
    Cardinality({h \in DOMAIN ports : ports[h].caller = "http"})
        + Len(clients) + Len(linesRead) + KeepAlives(clients)
        + Cardinality({c \in DOMAIN clients : clients[c].lost # -1})

\* The run has room for one more step.
EventBudget == Steps < MaxEvents
LineBudget == Steps < MaxLines

\* parser.on('data'): a line from receiver port h, handled at time t.
ReceiverData(h, data, t) ==
    /\ Running
    /\ h \in DOMAIN ports
    /\ ports[h].role = "receiver"
    /\ IsOpen(ports, h)
    /\ linesRead' = Append(linesRead, [port |-> h, data |-> data])
    /\ IF Forwarded(data)
       THEN /\ clients' = WriteAll(clients, connectedClients,
                                   DataFrame(Message(t, data)))
            /\ published' = Append(published, Message(t, data))
       ELSE UNCHANGED <<clients, published>>
    /\ UNCHANGED <<listed, connVars, sendVars, connectedClients>>

\* GET /api/events: the headers are written, the keepalive timer is started
\* and the response joins connectedClients.
Subscribe ==
    /\ Listening
    /\ clients' = Append(clients, [frames |-> <<>>, timer |-> TRUE,
                                   since |-> Len(published), until |-> -1,
                                   lost |-> -1])
    /\ connectedClients' = Append(connectedClients, Len(clients) + 1)
    /\ UNCHANGED <<listed, connVars, sendVars, linesRead, published>>

\* The keepalive timer of client c fires.
KeepAlive(c) ==
    /\ Running
    /\ c \in DOMAIN clients
    /\ clients[c].timer
    /\ clients' = Write(clients, c, KeepAliveFrame)
    /\ UNCHANGED <<listed, connVars, sendVars, connectedClients, linesRead, published>>

\* Mutant of WithoutClient: the filter keeps the client that closed.
OnlyClient(list, c) == SelectSeq(list, LAMBDA client : client = c)

\* connectedClients.filter(client => client !== res)
WithoutClient(list, c) == SelectSeq(list, LAMBDA client : client # c)

\* The socket of client c is destroyed; its 'close' events come in a later
\* turn.  Of the frames written to c the first lost have reached the socket.
ClientBreak(c) ==
    /\ Running
    /\ c \in DOMAIN clients
    /\ clients[c].until = -1
    /\ clients[c].lost = -1
    /\ clients' = [clients EXCEPT ![c].lost = Len(clients[c].frames)]
    /\ UNCHANGED <<listed, connVars, sendVars, connectedClients, linesRead, published>>

\* Mutant of ClearInterval: the timer of a closed client is left running.
ClearIntervalSkipped(cs, c) == cs

\* clearInterval(keepAlive)
ClearInterval(cs, c) == [cs EXCEPT ![c].timer = FALSE]

\* req.on('close') of client c: the timer is cleared and the response leaves
\* connectedClients.
ClientClose(c) ==
    /\ Running
    /\ c \in DOMAIN clients
    /\ clients[c].until = -1
    /\ clients' = [ClearInterval(clients, c) EXCEPT ![c].until = Len(published)]
    /\ connectedClients' = WithoutClient(connectedClients, c)
    /\ UNCHANGED <<listed, connVars, sendVars, linesRead, published>>

(***************************************************************************)
(* GET /api/ports and listPorts.  A device path is a sequence of           *)
(* characters.                                                             *)
(***************************************************************************)
\* Entries in one result of SerialPort.list().
MaxDevices == 2

TtyUSB == <<"t", "t", "y", "U", "S", "B">>
TtyACM == <<"t", "t", "y", "A", "C", "M">>

\* Entries of SerialPort.list(): a USB serial adapter, a USB-ACM device that
\* reports no manufacturer, an onboard port, a macOS and a Windows device,
\* and an adapter whose manufacturer is the empty string.
DevUSB0 == [path |-> <<"/", "d", "e", "v", "/", "t", "t", "y", "U", "S", "B", "0">>, manufacturer |-> "FTDI"]
DevACM0 == [path |-> <<"/", "d", "e", "v", "/", "t", "t", "y", "A", "C", "M", "0">>, manufacturer |-> Null]
DevS0 == [path |-> <<"/", "d", "e", "v", "/", "t", "t", "y", "S", "0">>, manufacturer |-> Null]
DevCu == [path |-> <<"/", "d", "e", "v", "/", "c", "u", ".", "u", "s", "b", "1">>, manufacturer |-> "Arduino"]
DevCOM3 == [path |-> <<"C", "O", "M", "3">>, manufacturer |-> "wch.cn"]
DevUSB1 == [path |-> <<"/", "d", "e", "v", "/", "t", "t", "y", "U", "S", "B", "1">>, manufacturer |-> ""]

Devices == {DevUSB0, DevACM0, DevS0, DevCu, DevCOM3, DevUSB1}

\* What SerialPort.list() can resolve with.
Enumerations == UNION {[1..n -> Devices] : n \in 0..MaxDevices}

\* What SerialPort.list() can reject with.
ListErrors == {"EPERM"}

NotListed == [st |-> "none", found |-> <<>>, failure |-> "", status |-> 0,
              ports |-> <<>>, error |-> ""]

\* port.manufacturer || 'Unknown'
OrUnknown(manufacturer) ==
    IF Falsy(manufacturer) THEN "Unknown" ELSE manufacturer

\* Mutant of ListPorts: the filter looks for ttyUSB only.
ListPortsUsbOnly(found) ==
    LET filteredPorts ==
            SelectSeq(found, LAMBDA port : Includes(port.path, TtyUSB))
    IN [k \in 1..Len(filteredPorts) |->
           [path |-> filteredPorts[k].path,
            manufacturer |-> OrUnknown(filteredPorts[k].manufacturer)]]

\* listPorts() after SerialPort.list() has resolved with found.
ListPorts(found) ==
    LET filteredPorts ==
            SelectSeq(found, LAMBDA port : Includes(port.path, TtyUSB)
                                           \/ Includes(port.path, TtyACM))
    IN [k \in 1..Len(filteredPorts) |->
           [path |-> filteredPorts[k].path,
            manufacturer |-> OrUnknown(filteredPorts[k].manufacturer)]]

\* The handler up to await listPorts(), which awaits SerialPort.list().
GetPorts ==
    /\ Listening
    /\ listed' = [NotListed EXCEPT !.st = "pending"]
    /\ UNCHANGED <<connVars, sendVars, eventVars>>

\* SerialPort.list() resolves: 200 with the JSON of listPorts()'s result.
ListResolved(found) ==
    /\ Running
    /\ listed.st = "pending"
    /\ listed' = [listed EXCEPT !.st = "done", !.found = found,
                                !.status = 200, !.ports = ListPorts(found)]
    /\ UNCHANGED <<connVars, sendVars, eventVars>>

\* SerialPort.list() rejects: listPorts() rejects and the handler's catch
\* answers 500 { error: err.message }.
ListRejected(err) ==
    /\ Running
    /\ listed.st = "pending"
    /\ listed' = [listed EXCEPT !.st = "done", !.failure = err,
                                !.status = 500, !.error = err]
    /\ UNCHANGED <<connVars, sendVars, eventVars>>

(***************************************************************************)
(* The program.                                                            *)
(***************************************************************************)
Init ==
    /\ ports = <<>>
    /\ receiverPort = 0
    /\ transmitterPort = 0
    /\ config \in SavedConfigs
    /\ boot = "start"
    /\ exited = FALSE
    /\ bootConfig = [receiverPort |-> Null, transmitterPort |-> Null]
    /\ lastDisconnect = [r \in Roles |-> NoReply]
    /\ overlap = [r \in Roles |-> FALSE]
    /\ sends = <<>>
    /\ writes = <<>>
    /\ connectedClients = <<>>
    /\ clients = <<>>
    /\ linesRead = <<>>
    /\ published = <<>>
    /\ listed = NotListed

Next ==
    \/ BootStart
    \/ ListenError
    \/ HttpRequestThrows
    \/ \E type \in Roles, port \in PathInputs, save \in Saves :
          HttpDisconnect(type, port, save)
    \/ \E type \in Roles, port \in PathInputs : HttpConnect(type, port)
    \/ \E save \in Saves : HttpConnectOther(save)
    \/ \E h \in DOMAIN ports : OpenEvent(h)
    \/ \E h \in DOMAIN ports, err \in Errors : OpenError(h, err)
    \/ \E h \in DOMAIN ports, closes \in BOOLEAN : PortError(h, closes)

Spec == Init /\ [][Next]_vars

\* The same program on a disk where every writeFileSync succeeds.
SavedNext ==
    \/ BootStart
    \/ ListenError
    \/ HttpRequestThrows
    \/ \E type \in Roles, port \in PathInputs : HttpDisconnect(type, port, "saved")
    \/ \E type \in Roles, port \in PathInputs : HttpConnect(type, port)
    \/ HttpConnectOther("saved")
    \/ \E h \in DOMAIN ports : Opened(h, "saved")
    \/ \E h \in DOMAIN ports, err \in Errors : OpenError(h, err)
    \/ \E h \in DOMAIN ports, closes \in BOOLEAN : PortError(h, closes)

SavedSpec == Init /\ [][SavedNext]_vars

\* The program as in Spec with one way for an open() to fail: what
\* config.json holds does not depend on why an open failed.
PersistNext ==
    \/ BootStart
    \/ ListenError
    \/ HttpRequestThrows
    \/ \E type \in Roles, port \in PathInputs, save \in Saves :
          HttpDisconnect(type, port, save)
    \/ \E type \in Roles, port \in PathInputs : HttpConnect(type, port)
    \/ \E save \in Saves : HttpConnectOther(save)
    \/ \E h \in DOMAIN ports : OpenEvent(h)
    \/ \E h \in DOMAIN ports : OpenError(h, "ENOENT")
    \/ \E h \in DOMAIN ports, closes \in BOOLEAN : PortError(h, closes)

PersistSpec == Init /\ [][PersistNext]_vars

(***************************************************************************)
(* The connections with a serial library that answers every open(): each   *)
(* port that is opening gets its 'open' or its 'error' event in the end.   *)
(* At most one role has a saved path and a request names one path per role. *)
(***************************************************************************)
\* The handles a run can construct: those of the requests and the
\* bootstrap's one.
Handles == 1..(MaxPorts + 1)

LiveNext ==
    \/ BootStart
    \/ ListenError
    \/ HttpRequestThrows
    \/ \E type \in Roles, save \in Saves : HttpDisconnect(type, "", save)
    \/ \E type \in Roles : HttpConnect(type, "/dev/ttyACM0")
    \/ \E save \in Saves : HttpConnectOther(save)
    \/ \E h \in DOMAIN ports : OpenEvent(h)
    \/ \E h \in DOMAIN ports : OpenError(h, "ENOENT")
    \/ \E h \in DOMAIN ports, closes \in BOOLEAN : PortError(h, closes)

\* port.open() of handle h is answered.
OpenAnswered(h) == OpenEvent(h) \/ OpenError(h, "ENOENT")

LiveInit == Init /\ (config.receiverPort = Null \/ config.transmitterPort = Null)

LiveSpec ==
    /\ LiveInit
    /\ [][LiveNext]_vars
    /\ \A h \in Handles : WF_vars(OpenAnswered(h))

(***************************************************************************)
(* The transmitter's requests: /api/connect for the transmitter and        *)
(* /api/send.  A receiver port exists only when the bootstrap reconnects   *)
(* one; at most one role has a saved path.                                 *)
(***************************************************************************)
SendInit == Init /\ (config.receiverPort = Null \/ config.transmitterPort = Null)

\* The run has room for one more request.
SendBudget == Len(ports) + Len(sends) < MaxRequests

SendNext ==
    \/ BootStart
    \/ ListenError
    \/ HttpRequestThrows
    \/ \E port \in {"", Null}, save \in Saves :
          HttpDisconnect("transmitter", port, save)
    \/ \E port \in Paths : SendBudget /\ HttpConnect("transmitter", port)
    \/ \E save \in Saves : HttpConnectOther(save)
    \/ \E h \in DOMAIN ports : OpenEvent(h)
    \/ \E h \in DOMAIN ports, err \in Errors : OpenError(h, err)
    \/ \E h \in DOMAIN ports, closes \in BOOLEAN : PortError(h, closes)
    \/ \E cmd \in Commands : SendBudget /\ HttpSend(cmd)
    \/ \E i \in DOMAIN sends, err \in WriteErrors \cup {""} : WriteDone(i, err)

SendSpec == SendInit /\ [][SendNext]_vars

(***************************************************************************)
(* The receiver alone: /api/connect for the receiver and the lines its     *)
(* ports read, with no /api/events client.  Nothing is saved for the       *)
(* transmitter and no request names it.                                    *)
(***************************************************************************)
EventInit == Init /\ config.transmitterPort = Null

LineNext ==
    \/ BootStart
    \/ ListenError
    \/ HttpRequestThrows
    \/ \E port \in {"", Null}, save \in Saves :
          HttpDisconnect("receiver", port, save)
    \/ \E port \in {"/dev/ttyACM0"} : LineBudget /\ HttpConnect("receiver", port)
    \/ \E save \in Saves : HttpConnectOther(save)
    \/ \E h \in DOMAIN ports : OpenEvent(h)
    \/ \E h \in DOMAIN ports, err \in {"ENOENT"} : OpenError(h, err)
    \/ \E h \in DOMAIN ports, closes \in BOOLEAN : PortError(h, closes)
    \/ \E h \in DOMAIN ports, data \in Lines, t \in Times :
          LineBudget /\ ReceiverData(h, data, t)

LineSpec == EventInit /\ [][LineNext]_vars

(***************************************************************************)
(* The event stream: the receiver as above, reading a line that is         *)
(* forwarded or one that is not, and the /api/events clients.              *)
(***************************************************************************)

EventNext ==
    \/ BootStart
    \/ ListenError
    \/ HttpRequestThrows
    \/ \E save \in Saves : HttpDisconnect("receiver", "", save)
    \/ \E port \in {"/dev/ttyACM0"} : EventBudget /\ HttpConnect("receiver", port)
    \/ \E save \in {"saved", "truncated"} : HttpConnectOther(save)
    \/ \E h \in DOMAIN ports : OpenEvent(h)
    \/ \E h \in DOMAIN ports, err \in {"ENOENT"} : OpenError(h, err)
    \/ \E h \in DOMAIN ports, closes \in BOOLEAN : PortError(h, closes)
    \/ \E h \in DOMAIN ports, data \in {LineDecoded, LineNoise}, t \in Times :
          EventBudget /\ ReceiverData(h, data, t)
    \/ EventBudget /\ Subscribe
    \/ \E c \in DOMAIN clients : EventBudget /\ KeepAlive(c)
    \/ \E c \in DOMAIN clients : EventBudget /\ ClientBreak(c)
    \/ \E c \in DOMAIN clients : ClientClose(c)

EventSpec == EventInit /\ [][EventNext]_vars

(***************************************************************************)
(* The server with both devices saved: the bootstrap reconnects them, then *)
(* clients subscribe, lines arrive, commands are sent and ports fail.  No  *)
(* request connects or disconnects a role.                                 *)
(***************************************************************************)
RunInit ==
    /\ Init
    /\ config.receiverPort # Null
    /\ config.transmitterPort # Null

\* The run has room for one more request, line or keepalive.
RunBudget ==
    Len(sends) + Len(clients) + Len(linesRead) + KeepAlives(clients)
       < MaxRequests

RunNext ==
    \/ BootStart
    \/ ListenError
    \/ HttpRequestThrows
    \/ \E h \in DOMAIN ports : OpenEvent(h)
    \/ \E h \in DOMAIN ports, err \in {"ENOENT"} : OpenError(h, err)
    \/ \E h \in DOMAIN ports, closes \in BOOLEAN : PortError(h, closes)
    \/ \E cmd \in {c \in Commands : c.bits = 32} : RunBudget /\ HttpSend(cmd)
    \/ \E i \in DOMAIN sends, err \in WriteErrors \cup {""} : WriteDone(i, err)
    \/ \E h \in DOMAIN ports, data \in {LineDecoded}, t \in {"10:15:01 AM"} :
          RunBudget /\ ReceiverData(h, data, t)
    \/ RunBudget /\ Subscribe
    \/ \E c \in DOMAIN clients : RunBudget /\ KeepAlive(c)
    \/ \E c \in DOMAIN clients : ClientClose(c)

RunSpec == RunInit /\ [][RunNext]_vars

\* The server answering GET /api/ports.
ListNext ==
    \/ BootStart
    \/ ListenError
    \/ HttpRequestThrows
    \/ GetPorts
    \/ \E found \in Enumerations : ListResolved(found)
    \/ \E err \in ListErrors : ListRejected(err)

ListSpec == Init /\ [][ListNext]_vars

(***************************************************************************)
(* Claims about the connection life cycle.                                 *)
(***************************************************************************)
PortsOf(role) == {h \in 1..Len(ports) : ports[h].role = role}

\* C1: for each role, as long as every connect call of the role was made
\* after the role's earlier opens had completed, every connection of the
\* role but the newest one is torn down (closed or failed) from the moment
\* the newest one is constructed, so at most one connection of the role is
\* open in every reachable state and no earlier handle stays open.
C1_OneOpenWhenSequential ==
    \A r \in Roles :
        ~overlap[r] =>
            /\ Cardinality(OpenPorts(r)) <= 1
            /\ \A h1, h2 \in PortsOf(r) :
                  h1 < h2 => ports[h1].st \in {"closed", "failed"}

\* connect(role, A) completed, then connect(role, B) to another path
\* completed: A is closed and B is the open, tracked connection.
C1_Witness ==
    \E r \in Roles : \E h1, h2 \in PortsOf(r) :
        /\ ~overlap[r]
        /\ h1 < h2
        /\ ports[h1].promise = "resolved"
        /\ ports[h1].st = "closed"
        /\ ports[h2].st = "open"
        /\ ports[h1].path # ports[h2].path
        /\ Tracked(r) = h2

\* C2: when a connect was called for a role while an earlier open of that
\* role was still pending, the role still never has two open connections,
\* and every open connection of the role is the one the session tracks.
C2_NoLeakWhenOverlapping ==
    \A r \in Roles :
        overlap[r] =>
            /\ Cardinality(OpenPorts(r)) <= 1
            /\ \A h \in OpenPorts(r) : Tracked(r) = h

\* C3: once the latest connect call of a role had an empty or absent path,
\* that call was answered with the disconnect result and the role has no
\* tracked connection, until the next connect call that names a path.
C3_DisconnectLeavesDisconnected ==
    \A r \in Roles :
        lastDisconnect[r] # NoReply =>
            /\ lastDisconnect[r] = Reply200Disconnected
            /\ Tracked(r) = 0
            /\ OpenPorts(r) = {}

BootPorts(role) == {h \in PortsOf(role) : ports[h].caller = "boot"}
HttpPorts(role) == {h \in PortsOf(role) : ports[h].caller = "http"}
Saved(role) ==
    IF role = "receiver" THEN bootConfig.receiverPort
    ELSE bootConfig.transmitterPort

\* C10: the bootstrap attempts one reconnect for each role that has a saved
\* path, to that path, and none for a role without one; a receiver whose
\* reconnect failed does not keep the bootstrap from going on to the
\* transmitter, is left without tracked or open connection unless a request
\* connects it, and a transmitter without saved path stays disconnected
\* unless a request connects it.
C10_BootRolesIndependent ==
    /\ \A h \in BootPorts("receiver") :
          ports[h].st = "failed" => boot \in {"awaitTransmitter", "done"}
    /\ boot \in {"awaitTransmitter", "done"} =>
          /\ \A h \in BootPorts("receiver") : ports[h].st # "opening"
          /\ (BootPorts("receiver") # {}) = ~Falsy(Saved("receiver"))
    /\ boot = "done" =>
          \A r \in Roles :
              /\ Cardinality(BootPorts(r)) = IF Falsy(Saved(r)) THEN 0 ELSE 1
              /\ \A h \in BootPorts(r) :
                    ports[h].path = Saved(r) /\ ports[h].st # "opening"
    /\ \A r \in Roles :
          (boot # "start" /\ HttpPorts(r) = {}
              /\ \A h \in BootPorts(r) : ports[h].st = "failed")
          => (Tracked(r) = 0 /\ OpenPorts(r) = {})

\* The saved receiver could not be opened, and the saved transmitter was
\* reconnected all the same.
C10_Witness ==
    /\ boot = "done"
    /\ \E h \in BootPorts("receiver") : ports[h].st = "failed"
    /\ receiverPort = 0
    /\ \E h \in BootPorts("transmitter") :
          ports[h].st = "open" /\ transmitterPort = h

(***************************************************************************)
(* Claims about the event stream.                                          *)
(***************************************************************************)
\* The messages of the data frames written to client c, in write order.
Received(c) ==
    LET frames == SelectSeq(clients[c].frames, LAMBDA f : f.type = "data")
    IN [k \in 1..Len(frames) |-> frames[k].message]

Subscribed(c) == \E k \in DOMAIN connectedClients : connectedClients[k] = c

\* C4: every client has been written exactly the messages broadcast since
\* it subscribed (up to now for a subscribed client, up to its removal for a
\* removed one), each once and in broadcast order; while the process is
\* alive a client stays subscribed until its own close, whichever other
\* client closes.
C4_EverySubscriberGetsEveryEvent ==
    \A c \in DOMAIN clients :
        /\ Received(c) =
              SubSeq(published, clients[c].since + 1,
                     IF clients[c].until = -1 THEN Len(published)
                     ELSE clients[c].until)
        /\ Subscribed(c) = (clients[c].until = -1 /\ ~exited)
        /\ Cardinality({k \in DOMAIN connectedClients : connectedClients[k] = c}) <= 1

\* Two clients subscribed before the first of two events; one closed between
\* the two, the other has received both.
C4_Witness ==
    \E c1, c2 \in DOMAIN clients :
        /\ c1 # c2
        /\ Len(published) = 2
        /\ clients[c1].since = 0
        /\ clients[c2].since = 0
        /\ clients[c1].until = 1
        /\ Len(Received(c1)) = 1
        /\ clients[c2].until = -1
        /\ Received(c2) = published

\* The lines that hold a marker.
MarkedLines == {LineDecoded, LineReady, LineDecodedInside}

\* C5: the messages broadcast are, in read order, exactly the lines read
\* that hold "Decoded" or "Ready to receive", each with the line unchanged
\* as its data; a line with neither marker is not broadcast.
C5_ForwardsExactlyMarkedLines ==
    LET marked == SelectSeq(linesRead, LAMBDA l : l.data \in MarkedLines) IN
    /\ Len(published) = Len(marked)
    /\ \A k \in DOMAIN published : published[k].data = marked[k].data
    /\ Len(published) <= Len(linesRead)
    /\ (Len(published) = Len(linesRead)) =
          (\A k \in DOMAIN linesRead : linesRead[k].data \in MarkedLines)

\* "Decoded NEC 32 0x1", "noise", "Ready to receive" were read and the first
\* and the third were broadcast.
C5_Witness ==
    /\ Len(linesRead) = 3
    /\ linesRead[1].data = LineDecoded
    /\ linesRead[2].data = LineNoise
    /\ linesRead[3].data = LineReady
    /\ Len(published) = 2
    /\ published[1].data = LineDecoded
    /\ published[2].data = LineReady

(***************************************************************************)
(* Claims about /api/send.                                                 *)
(***************************************************************************)
WritesOf(i) == {k \in DOMAIN writes : writes[k].send = i}

\* C6: a send that arrives while no transmitter port is open is answered
\* with the "Transmitter not connected" error, makes no write and leaves
\* the ports, the tracked handles and the configuration as they were; no
\* request answered so ever has a write.
C6_SendNotConnected ==
    /\ [](\A i \in DOMAIN sends :
             sends[i].port = 0 =>
                 sends[i].reply = Reply500(NotConnected) /\ WritesOf(i) = {})
    /\ [][(Len(sends') = Len(sends) + 1 /\ OpenPorts("transmitter") = {})
            => /\ sends'[Len(sends')].reply = Reply500(NotConnected)
               /\ sends'[Len(sends')].port = 0
               /\ writes' = writes
               /\ UNCHANGED connVars]_vars

\* A send was refused while the tracked transmitter handle was a port that
\* had been open and is closed.
C6_Witness ==
    \E i \in DOMAIN sends :
        /\ sends[i].reply = Reply500(NotConnected)
        /\ transmitterPort # 0
        /\ ports[transmitterPort].st = "closed"
        /\ \A h \in DOMAIN ports : ports[h].st # "open"

DigitValue(ch) == CHOOSE d \in 0..9 : Digit[d + 1] = ch

RECURSIVE DecimalValue(_)
DecimalValue(ds) ==
    IF ds = <<>> THEN 0
    ELSE 10 * DecimalValue(SubSeq(ds, 1, Len(ds) - 1)) + DigitValue(ds[Len(ds)])

\* bytes reads as <protocol> , <decimal digits of bits> , <code> newline.
IsCommandLine(bytes, cmd) ==
    LET p == Len(cmd.protocol)
        c == Len(cmd.code)
        n == Len(bytes) - p - c - 3
    IN /\ n >= 1
       /\ SubSeq(bytes, 1, p) = cmd.protocol
       /\ bytes[p + 1] = ","
       /\ \A k \in (p + 2)..(p + 1 + n) : \E d \in 1..10 : Digit[d] = bytes[k]
       /\ n > 1 => bytes[p + 2] # "0"
       /\ DecimalValue(SubSeq(bytes, p + 2, p + 1 + n)) = cmd.bits
       /\ bytes[p + n + 2] = ","
       /\ SubSeq(bytes, p + n + 3, Len(bytes) - 1) = cmd.code
       /\ bytes[Len(bytes)] = "\n"

NEC32 == [protocol |-> <<"N", "E", "C">>, bits |-> 32, code |-> <<"0", "x", "1">>]

\* C7: every send made on a connected transmitter makes exactly one write,
\* to the transmitter port that was tracked, and its bytes are the
\* protocol, a comma, the bit length in decimal, a comma, the code and one
\* newline (NEC, 32, 0x1 writes "NEC,32,0x1\n"); no write goes to a
\* receiver port.
C7_SendWritesCommandLine ==
    /\ \A i \in DOMAIN sends :
          sends[i].port # 0 =>
              /\ Cardinality(WritesOf(i)) = 1
              /\ \A k \in WritesOf(i) :
                    /\ writes[k].port = sends[i].port
                    /\ IsCommandLine(writes[k].bytes, sends[i].cmd)
                    /\ sends[i].cmd = NEC32 =>
                          writes[k].bytes = <<"N", "E", "C", ",", "3", "2", ",",
                                              "0", "x", "1", "\n">>
    /\ \A k \in DOMAIN writes : ports[writes[k].port].role = "transmitter"

\* NEC, 32, 0x1 was sent on a connected transmitter while a receiver port
\* was open as well.
C7_Witness ==
    /\ \E i \in DOMAIN sends :
          sends[i].cmd = NEC32 /\ sends[i].port # 0 /\ WritesOf(i) # {}
    /\ OpenPorts("receiver") # {}

\* C8: a send made on a connected transmitter is answered only once its
\* write callback has run: with 200 exactly when the callback reported no
\* error, and with 500 and the callback's error when it reported one; the
\* send has made one write whatever the outcome.
C8_SendFollowsWriteCallback ==
    \A i \in DOMAIN sends :
        sends[i].port # 0 =>
            /\ (sends[i].reply = NoReply) = (sends[i].cb = "pending")
            /\ (sends[i].reply = Reply200) = (sends[i].cb = "ok")
            /\ sends[i].cb \in WriteErrors => sends[i].reply = Reply500(sends[i].cb)
            /\ sends[i].cb \in WriteErrors \cup {"ok", "pending"}
            /\ Cardinality(WritesOf(i)) = 1

\* One write failed and its send was answered with that error; another
\* write succeeded.
C8_Witness ==
    \E i, j \in DOMAIN sends :
        /\ sends[i].cb = "EIO"
        /\ sends[i].reply = Reply500("EIO")
        /\ sends[j].cb = "ok"
        /\ sends[j].reply = Reply200

\* C9: the writes reach the ports in the order their sends were called, each
\* write is the whole command line of its own send on that send's port,
\* and on one port the callbacks run in that same order.
C9_WritesWholeAndInOrder ==
    /\ \A k1, k2 \in DOMAIN writes :
          k1 < k2 => writes[k1].send < writes[k2].send
    /\ \A k \in DOMAIN writes :
          /\ writes[k].send \in DOMAIN sends
          /\ writes[k].port = sends[writes[k].send].port
          /\ IsCommandLine(writes[k].bytes, sends[writes[k].send].cmd)
          /\ \A n \in 1..(Len(writes[k].bytes) - 1) : writes[k].bytes[n] # "\n"
    /\ \A i, j \in DOMAIN sends :
          (i < j /\ sends[i].port = sends[j].port /\ sends[i].port # 0
              /\ sends[j].cb # "pending")
          => sends[i].cb # "pending"

\* Two sends of different commands are outstanding on one port.
C9_Witness ==
    \E i, j \in DOMAIN sends :
        /\ i < j
        /\ sends[i].port # 0
        /\ sends[i].port = sends[j].port
        /\ sends[i].cb = "pending"
        /\ sends[j].cb = "pending"
        /\ sends[i].cmd # sends[j].cmd


(***************************************************************************)
(* Claims about the saved configuration.                                   *)
(***************************************************************************)
\* The path of the role in config.json.
Persisted(role) ==
    IF role = "receiver" THEN config.receiverPort ELSE config.transmitterPort

\* This step is the 'open' event of port h, made by a /api/connect request,
\* with a save of the given outcome, and the request is answered 200.
ConnectSucceeds(h, save) ==
    /\ ports[h].caller = "http"
    /\ ports[h].st = "opening"
    /\ ports'[h].reply.status = 200
    /\ Opened(h, save)

\* This step is a /api/connect request without a port for the role (absent
\* or empty), with a save of the given outcome, and the request is answered
\* 200, whether or not the role was disconnected before.  (The first two
\* conjuncts follow from the handler; they are evaluated first.)
DisconnectSucceeds(role, save) ==
    /\ lastDisconnect'[role].status = 200
    /\ Tracked(role)' = 0
    /\ \E port \in {"", Null} : HttpDisconnect(role, port, save)

\* C11 as stated: after every successful connect of a role to a path the
\* saved path of the role is that path, and after every successful
\* disconnect of a role the saved path of the role is null.
C11_SavedAfterEverySuccess ==
    [][/\ \A h \in DOMAIN ports, save \in Saves :
            ConnectSucceeds(h, save) =>
               Persisted(ports[h].role)' = ports[h].path
       /\ \A role \in Roles, save \in Saves :
            DisconnectSucceeds(role, save) => Persisted(role)' = Null]_vars

\* The saved configuration after a step that saves the path of the role
\* (null for a disconnect) with the given outcome: the role's path after a
\* save that succeeded, what it was when the file could not be opened for
\* writing, and no path for either role when the write failed after the
\* file was truncated.
SavedAs(role, portPath, save) ==
    CASE save = "saved" ->
           /\ Persisted(role)' = portPath
           /\ \A other \in Roles \ {role} :
                 Persisted(other)' = Persisted(other)
      [] save = "untouched" -> config' = config
      [] save = "truncated" -> config' = NoConfig

\* C11: a successful connect of a role to a path whose save succeeds leaves
\* that path as the saved path of the role, and a successful disconnect
\* whose save succeeds leaves null; when the save fails the request
\* succeeds all the same and the saved configuration is what it was, or,
\* after a write that failed on the truncated file, holds no path for
\* either role.  Every step that answers a connect request with 200 is such
\* a step.
C11_SavedUnlessSaveFailed ==
    [][/\ \A h \in DOMAIN ports, save \in Saves :
            ConnectSucceeds(h, save) =>
               SavedAs(ports[h].role, ports[h].path, save)
       /\ \A role \in Roles, save \in Saves :
            DisconnectSucceeds(role, save) => SavedAs(role, Null, save)
       /\ \A h \in DOMAIN ports :
            (/\ ports[h].caller = "http"
             /\ ports[h].reply = NoReply
             /\ ports'[h].reply.status = 200)
            => \E save \in Saves : ConnectSucceeds(h, save)
       /\ \A role \in Roles :
            (lastDisconnect'[role] # lastDisconnect[role]
               /\ lastDisconnect'[role].status = 200)
            => \E save \in Saves : DisconnectSucceeds(role, save)]_vars

\* The receiver was connected to a path that was not the saved one and the
\* transmitter, reconnected at startup, was disconnected; both were saved.
C11_Witness ==
    /\ \E h \in HttpPorts("receiver") :
          /\ ports[h].reply = Reply200
          /\ ports[h].path # bootConfig.receiverPort
          /\ Persisted("receiver") = ports[h].path
    /\ bootConfig.transmitterPort # Null
    /\ lastDisconnect["transmitter"] = Reply200Disconnected
    /\ Persisted("transmitter") = Null

\* C12: a connect or a disconnect whose save fails is answered like one
\* whose save succeeds, and leaves the ports and the tracked handles as that
\* one does: the opened port is the tracked one of its role after a connect,
\* the role has no tracked port after a disconnect.
C12_SaveFailureNotPropagated ==
    [][/\ \A h \in DOMAIN ports :
            (ports[h].caller = "http" /\ ports[h].st = "opening"
               /\ ports'[h].st = "open")
            => /\ ports' = [ports EXCEPT ![h].st = "open",
                                         ![h].promise = "resolved",
                                         ![h].reply = Reply200]
               /\ Tracked(ports[h].role)' = h
       /\ \A role \in Roles :
            (lastDisconnect[role] = NoReply /\ lastDisconnect'[role] # NoReply)
            => /\ lastDisconnect'[role] = Reply200Disconnected
               /\ Tracked(role)' = 0
               /\ ports' = CloseIfOpen(ports, Tracked(role))]_vars

\* A connect was answered with 200 and its port is the open, tracked port of
\* the receiver, while the saved path of the receiver is not its path: the
\* save failed.
C12_Witness ==
    /\ \E h \in HttpPorts("receiver") :
          /\ ports[h].reply = Reply200
          /\ receiverPort = h
          /\ IsOpen(ports, h)
          /\ Persisted("receiver") # ports[h].path
    /\ lastDisconnect["receiver"] = NoReply
    /\ Cardinality(HttpPorts("receiver")) = 1

\* C19: a connect request whose open fails is answered 500 and writes
\* nothing to config.json, neither when it is called, where it closes the
\* tracked open port of the role, nor when its open fails.
C19_FailedConnectSavesNothing ==
    [][\A h \in DOMAIN ports' :
         /\ h \notin DOMAIN ports => config' = config
         /\ (h \in DOMAIN ports /\ ports[h].caller = "http"
               /\ ports[h].st = "opening" /\ ports'[h].st = "failed")
            => /\ config' = config
               /\ ports'[h].reply.status = 500]_vars

\* A connect of the receiver closed the port reconnected at startup and then
\* failed: the receiver has no open port and the saved path is still that of
\* the closed port.
C19_Witness ==
    \E g \in BootPorts("receiver"), h \in HttpPorts("receiver") :
        /\ ports[g].st = "closed"
        /\ ports[h].st = "failed"
        /\ ports[h].reply.status = 500
        /\ OpenPorts("receiver") = {}
        /\ Persisted("receiver") = ports[g].path
        /\ ports[h].path # ports[g].path

(***************************************************************************)
(* Claims about failures.                                                  *)
(***************************************************************************)
\* The 'error' event of this step ends the opening of port h.
OpenFails(h) == ports[h].st = "opening" /\ ports'[h].st = "failed"

\* C13: when the open of a connect fails, the request is answered with the
\* error of the port, and the role is left without an open port, also when
\* it had an open port before the connect.
C13_OpenFailureLeavesNoConnection ==
    [][\A h \in DOMAIN ports :
         OpenFails(h) =>
            /\ ports[h].caller = "http" =>
                  ports'[h].reply = Reply500(ports'[h].promise)
            /\ ports'[h].promise \in Errors
            /\ OpenPorts(ports[h].role)' = {}]_vars

(***************************************************************************)
(* Claims about subscribers that close.                                    *)
(***************************************************************************)
\* The frames that have reached the socket of client c.
Delivered(c) ==
    IF clients[c].lost = -1 THEN clients[c].frames
    ELSE SubSeq(clients[c].frames, 1, clients[c].lost)

\* C14: when an event is broadcast while the socket of a subscribed client is
\* gone, every other subscribed client receives the frame of the event and
\* the client whose delivery failed is no longer subscribed after the
\* broadcast.
C14_FailedDeliveryRemovesSubscriber ==
    [][published' # published =>
         \A c \in DOMAIN clients :
            Subscribed(c) =>
               IF clients[c].lost = -1
               THEN Delivered(c)' =
                       Append(Delivered(c),
                              DataFrame(published'[Len(published')]))
               ELSE ~Subscribed(c)']_vars

\* C15: the close of a client removes that client and no other from
\* connectedClients and stops its timer and no other; no frame is written
\* to a removed client from then on; and running the close handler on a
\* removed client would change neither connectedClients nor any timer.
C15_UnsubscribeStopsFrames ==
    /\ [](\A c \in DOMAIN clients :
            clients[c].until # -1 =>
               /\ ~Subscribed(c)
               /\ ~clients[c].timer
               /\ WithoutClient(connectedClients, c) = connectedClients
               /\ ClearInterval(clients, c) = clients)
    /\ [][\A c \in DOMAIN clients :
            /\ clients[c].until # -1 => clients'[c].frames = clients[c].frames
            /\ (clients[c].until = -1 /\ clients'[c].until # -1) =>
                  \A d \in DOMAIN clients \ {c} :
                     /\ Subscribed(d)' = Subscribed(d)
                     /\ clients'[d] = clients[d]]_vars

\* A client that had received an event was removed while another stayed
\* subscribed; the event broadcast after the removal was written to the
\* other client only.
C15_Witness ==
    \E c, d \in DOMAIN clients :
        /\ clients[c].until # -1
        /\ clients[c].until < Len(published)
        /\ clients[c].since < clients[c].until
        /\ Len(Received(c)) = clients[c].until - clients[c].since
        /\ Subscribed(d)
        /\ clients[d].timer
        /\ Len(Received(d)) > Len(Received(c))

(***************************************************************************)
(* Claims about GET /api/ports.                                            *)
(***************************************************************************)
\* The devices of Devices that are USB serial devices by their path.
UsbDevices == {DevUSB0, DevACM0, DevUSB1}

\* The manufacturer each of them is listed with.
Manufacturer(device) == IF device = DevUSB0 THEN "FTDI" ELSE "Unknown"

\* C16: the answer to GET /api/ports holds exactly the enumerated devices
\* whose path contains ttyUSB or ttyACM, in the order of the enumeration,
\* each with its path and its manufacturer, which is 'Unknown' for a device
\* that reports none; an enumeration with no such device is answered with
\* 200 and an empty list; a failed enumeration is answered with its error.
C16_ListsUsbDevicesInOrder ==
    listed.st = "done" =>
       IF listed.failure # ""
       THEN /\ listed.status = 500
            /\ listed.error = listed.failure
            /\ listed.ports = <<>>
       ELSE LET usb == SelectSeq(listed.found,
                                 LAMBDA device : device \in UsbDevices)
            IN /\ listed.status = 200
               /\ listed.error = ""
               /\ Len(listed.ports) = Len(usb)
               /\ \A k \in 1..Len(usb) :
                     /\ listed.ports[k].path = usb[k].path
                     /\ listed.ports[k].manufacturer = Manufacturer(usb[k])

\* An onboard port and a USB-ACM device without a manufacturer were
\* enumerated: the answer lists the second one only, as 'Unknown'.
C16_Witness ==
    /\ listed.st = "done"
    /\ listed.found = <<DevS0, DevACM0>>
    /\ listed.status = 200
    /\ listed.ports = <<[path |-> DevACM0.path, manufacturer |-> "Unknown"]>>

(***************************************************************************)
(* Claims about the source of the events.                                  *)
(***************************************************************************)
\* C17: every event written to a subscribed client comes from a line of the
\* receiver port that is the tracked one when the line is handled; no line
\* of a port that was closed or replaced is broadcast.
C17_EventsFromCurrentReceiver ==
    [][(published' # published /\ connectedClients # <<>>) =>
          /\ linesRead'[Len(linesRead')].port = receiverPort
          /\ IsOpen(ports, receiverPort)]_vars

(***************************************************************************)
(* Claims about errors of an open port.                                    *)
(***************************************************************************)
\* This step is an 'error' event of port h, the open and tracked port of its
\* role: an unsolicited error on a connected role.
PortFails(h, closes) ==
    /\ PortError(h, closes)
    /\ Tracked(ports[h].role) = h

RoleView(role) ==
    <<Tracked(role), SelectSeq(ports, LAMBDA port : port.role = role)>>

\* This step changes the connection state of the role, its saved path or
\* the record of its latest call.
Touches(role) ==
    \/ RoleView(role)' # RoleView(role)
    \/ Persisted(role)' # Persisted(role)
    \/ lastDisconnect'[role] # lastDisconnect[role]

\* The turn of the bootstrap in which the reconnect of the receiver ends and
\* connectToTransmitter is called.
BootGoesOn == boot = "awaitReceiver" /\ boot' = "awaitTransmitter"

\* C20: a step that connects or disconnects a role, or in which an open of
\* the role fails or its port fails, changes neither the tracked handle nor
\* any port of the other role, and a step that saves the path of a role
\* leaves the saved path of the other role as it was.  The one step that
\* concerns both roles is the bootstrap going on from the receiver to the
\* transmitter, and there the transmitter's part is its own connect call.
\* The step in which the process exits is a request for neither role.
C20_RolesIndependent ==
    [][/\ (~BootGoesOn /\ exited' = exited)
             => ~(Touches("receiver") /\ Touches("transmitter"))
       /\ BootGoesOn =>
             /\ transmitterPort' = transmitterPort
             /\ Persisted("transmitter")' = Persisted("transmitter")
             /\ \E h \in DOMAIN ports :
                   /\ ports[h].role = "receiver"
                   /\ ports' = Append(
                         [CloseIfOpen(ports, transmitterPort) EXCEPT
                            ![h] = ports'[h]],
                         NewPort("transmitter", bootConfig.transmitterPort,
                                 "boot"))]_vars

(***************************************************************************)
(* Claims about the saved configuration and the live connections.          *)
(***************************************************************************)
\* C21: with saves that succeed, whenever no open of a role is pending and
\* the tracked port of the role is open and was made by a /api/connect
\* request, the saved path of the role is the path of that port, in whatever
\* order overlapping requests of the role were answered.
C21_SavedIsTrackedOpenPath ==
    \A role \in Roles :
        (/\ Opening(role) = {}
         /\ Tracked(role) # 0
         /\ IsOpen(ports, Tracked(role))
         /\ ports[Tracked(role)].caller = "http")
        => Persisted(role) = ports[Tracked(role)].path

\* Two overlapping connects of the receiver to different paths both opened,
\* the one called first last: its port is the tracked one and its path the
\* saved one.
C21_Witness ==
    \E h1, h2 \in HttpPorts("receiver") :
        /\ h1 < h2
        /\ ports[h1].path # ports[h2].path
        /\ IsOpen(ports, h1)
        /\ IsOpen(ports, h2)
        /\ receiverPort = h1
        /\ Opening("receiver") = {}
        /\ Persisted("receiver") = ports[h1].path

(***************************************************************************)
(* Claims about the bootstrap.                                             *)
(***************************************************************************)
\* This step is a turn of the server.listen callback: its start, or the
\* 'open' or 'error' event that ends one of its reconnects.
BootstrapStep ==
    \/ boot = "start" /\ boot' # "start"
    \/ \E h \in DOMAIN ports :
          /\ ports[h].caller = "boot"
          /\ ports[h].st = "opening"
          /\ ports'[h].st # "opening"

\* C22: the bootstrap reads config.json once, at its start, and no turn of
\* it writes config.json, whether a reconnect opens or fails: the saved
\* paths of both roles are after each of its turns what they were before.
C22_BootstrapNeverSaves ==
    [][/\ BootstrapStep => config' = config
       /\ boot # "start" => bootConfig' = bootConfig
       /\ (boot = "start" /\ boot' # "start") => bootConfig' = config]_vars

\* The bootstrap is over: the receiver's saved device was missing, the
\* transmitter's was reconnected, and both paths are saved as they were
\* loaded.
C22_Witness ==
    /\ boot = "done"
    /\ config = bootConfig
    /\ \E h \in BootPorts("receiver") :
          /\ ports[h].st = "failed"
          /\ Persisted("receiver") = ports[h].path
    /\ \E h \in BootPorts("transmitter") :
          /\ IsOpen(ports, h)
          /\ Persisted("transmitter") = ports[h].path

(***************************************************************************)
(* Claims about the completion of a connect.                               *)
(***************************************************************************)
\* The promise of the connect call that made port h is settled.
Settled(h) == h \in DOMAIN ports /\ ports[h].promise # "pending"

\* C23: with a library that answers every open, the promise of every
\* connect call is settled in the end; once settled, resolved or rejected,
\* it stays as it is and so does the response of the request, also when the
\* port has an 'error' event after its open.
C23_ConnectCompletesOnce ==
    /\ \A h \in Handles : (h \in DOMAIN ports) ~> Settled(h)
    /\ [][\A h \in DOMAIN ports :
            /\ Settled(h) =>
                  /\ ports'[h].promise = ports[h].promise
                  /\ ports'[h].reply = ports[h].reply
            /\ (~Settled(h) /\ Settled(h)') =>
                  /\ ports'[h].promise = "resolved" \/ ports'[h].promise \in Errors
                  /\ ports[h].caller = "http" =>
                        ports'[h].reply =
                           IF ports'[h].promise = "resolved" THEN Reply200
                           ELSE Reply500(ports'[h].promise)]_vars

====
